---- MODULE Spec2Model ----
(***************************************************************************)
(* Model of the complaint analysis API (src/app.py): the POST /analyze     *)
(* handler and its three collaborators search_firebase, search_online and  *)
(* generate_summary.                                                        *)
(*                                                                          *)
(* A Python str is a sequence of one-character strings.  A Python dict is   *)
(* a function whose DOMAIN is its key set, so that a missing key is a key   *)
(* outside the DOMAIN.                                                      *)
(***************************************************************************)
EXTENDS Integers, Sequences, FiniteSets, TLC

VARIABLES
    store,         \* the documents of db.collection("complaints"), in the order the store returns them
    body,          \* the JSON body of the request being handled
    pc,            \* position of the handler
    location,      \* local of analyze
    problem,       \* local of analyze
    threshold,     \* parameter of search_firebase
    complaints,    \* local of analyze: what search_firebase returned
    news_results,  \* local of analyze: what search_online returned
    summary,       \* local of analyze: what generate_summary returned
    prompt,        \* what generate_summary sent to the generative model
    response,      \* the (body, status) pair analyze returned
    calls          \* history: calls, returns and raised failures, in order

vars == <<store, body, pc, location, problem, threshold, complaints,
          news_results, summary, prompt, response, calls>>

(***************************************************************************)
(* Bounds of the model.                                                     *)
(***************************************************************************)
MaxRecords == 2     \* documents in the store (handler specification)
MaxResults == 4     \* candidates handed to the ranker (ranker specification)
MaxWords == 3       \* words in a problem or a text (score specification)
MaxOrganic == 6     \* organic results the search service may answer with

(***************************************************************************)
(* Characters and Python's str methods.                                     *)
(***************************************************************************)
HIGH_SENTINEL == "uf8ff"

\* Unicode code point of a character.
Ord(c) ==
    CASE c = " " -> 32
      [] c = "A" -> 65
      [] c = "B" -> 66
      [] c = "a" -> 97
      [] c = "b" -> 98
      [] c = HIGH_SENTINEL -> 63743

IsSpace(c) == c = " "

IsCased(c) == c \in {"A", "B", "a", "b"}

LowerChar(c) == CASE c = "A" -> "a" [] c = "B" -> "b" [] OTHER -> c

UpperChar(c) == CASE c = "a" -> "A" [] c = "b" -> "B" [] OTHER -> c

\* str.lower()
lower(s) == [i \in 1..Len(s) |-> LowerChar(s[i])]

\* str.title(): a cased character is upper-cased when it follows an uncased
\* one (or starts the string) and lower-cased otherwise.
title(s) ==
    [i \in 1..Len(s) |->
        IF i = 1 \/ ~IsCased(s[i - 1]) THEN UpperChar(s[i]) ELSE LowerChar(s[i])]

RECURSIVE lstrip(_)
lstrip(s) == IF s # <<>> /\ IsSpace(Head(s)) THEN lstrip(Tail(s)) ELSE s

RECURSIVE rstrip(_)
rstrip(s) ==
    IF s # <<>> /\ IsSpace(s[Len(s)]) THEN rstrip(SubSeq(s, 1, Len(s) - 1)) ELSE s

\* str.strip()
strip(s) == rstrip(lstrip(s))

\* str.split(): the maximal runs of non-whitespace characters, in order.
RECURSIVE SplitFrom(_, _, _)
SplitFrom(s, i, cur) ==
    IF i > Len(s)
    THEN IF cur = <<>> THEN <<>> ELSE <<cur>>
    ELSE IF IsSpace(s[i])
         THEN IF cur = <<>>
              THEN SplitFrom(s, i + 1, <<>>)
              ELSE <<cur>> \o SplitFrom(s, i + 1, <<>>)
         ELSE SplitFrom(s, i + 1, Append(cur, s[i]))

split(s) == SplitFrom(s, 1, <<>>)

\* " ".join(words)
RECURSIVE join(_)
join(words) ==
    IF words = <<>> THEN <<>>
    ELSE IF Len(words) = 1 THEN words[1]
    ELSE words[1] \o <<" ">> \o join(Tail(words))

\* s < t for Python strings: lexicographic by code point.
RECURSIVE StrLess(_, _)
StrLess(s, t) ==
    IF t = <<>> THEN FALSE
    ELSE IF s = <<>> THEN TRUE
    ELSE IF Ord(Head(s)) < Ord(Head(t)) THEN TRUE
    ELSE IF Ord(Head(s)) > Ord(Head(t)) THEN FALSE
    ELSE StrLess(Tail(s), Tail(t))

StrLeq(s, t) == s = t \/ StrLess(s, t)

\* sorted(words): ascending; the order of equal words cannot be observed.
RECURSIVE InsertWord(_, _)
InsertWord(w, ws) ==
    IF ws = <<>> THEN <<w>>
    ELSE IF StrLess(w, Head(ws)) THEN <<w>> \o ws
    ELSE <<Head(ws)>> \o InsertWord(w, Tail(ws))

RECURSIVE sorted(_)
sorted(ws) ==
    IF ws = <<>> THEN <<>> ELSE InsertWord(ws[Len(ws)], sorted(SubSeq(ws, 1, Len(ws) - 1)))

(***************************************************************************)
(* rapidfuzz.fuzz as called at src/app.py:43.  A score is the exact value   *)
(* 100 * (1 - indel_distance / (len1 + len2)) kept as a reduced fraction    *)
(* [num, den], so that comparing and sorting scores is exact.               *)
(***************************************************************************)
Max(a, b) == IF a >= b THEN a ELSE b

RECURSIVE GCD(_, _)
GCD(a, b) == IF b = 0 THEN a ELSE GCD(b, a % b)

Fraction(n, d) == LET g == GCD(n, d) IN [num |-> n \div g, den |-> d \div g]

\* Length of a longest common subsequence of a and b.
LCS(a, b) ==
    LET f[i \in 0..Len(a), j \in 0..Len(b)] ==
            IF i = 0 \/ j = 0 THEN 0
            ELSE IF a[i] = b[j] THEN f[i - 1, j - 1] + 1
            ELSE Max(f[i - 1, j], f[i, j - 1])
    IN  f[Len(a), Len(b)]

\* fuzz.ratio: the normalized Indel similarity, times 100.
ratio(a, b) ==
    IF Len(a) + Len(b) = 0 THEN Fraction(100, 1)
    ELSE Fraction(100 * 2 * LCS(a, b), Len(a) + Len(b))

\* fuzz.token_sort_ratio
token_sort_ratio(s1, s2) == ratio(join(sorted(split(s1))), join(sorted(split(s2))))

\* a >= b for scores; a score against an integer threshold.
ScoreGeq(a, b) == a.num * b.den >= b.num * a.den

ScoreAtLeast(a, t) == a.num >= t * a.den

(***************************************************************************)
(* search_firebase (src/app.py:32-48).                                      *)
(***************************************************************************)
Raise(e) == [ok |-> FALSE, error |-> e]

Return(v) == [ok |-> TRUE, value |-> v]

\* The range filter of line 37 on one document.
InLocationRange(doc, loc) ==
    /\ "location" \in DOMAIN doc
    /\ StrLeq(loc, doc["location"])
    /\ StrLeq(doc["location"], loc \o <<HIGH_SENTINEL>>)

\* list(query.stream()): the documents passing the filter, in the store's order.
QueryResults(docs, loc) == SelectSeq(docs, LAMBDA doc : InLocationRange(doc, loc))

\* Variant of line 43 that calls fuzz.ratio, which does not sort the words.
similarity_score_unsorted(prob, data) == ratio(lower(prob), lower(data["text"]))

\* Line 43.
similarity_score(prob, data) == token_sort_ratio(lower(prob), lower(data["text"]))

\* Line 45: {**data, "similarity": similarity_score}
WithSimilarity(data, score) ==
    [k \in DOMAIN data \cup {"similarity"} |->
        IF k = "similarity" THEN score ELSE data[k]]

\* Lines 41-45 without the KeyError: the candidates kept, in input order.
RECURSIVE Matched(_, _, _)
Matched(results, prob, t) ==
    IF results = <<>> THEN <<>>
    ELSE LET data == Head(results)
             score == similarity_score(prob, data)
             rest == Matched(Tail(results), prob, t)
         IN  IF ScoreAtLeast(score, t)
             THEN <<WithSimilarity(data, score)>> \o rest
             ELSE rest

\* Line 47: list.sort(key=similarity, reverse=True).  Python's sort is stable,
\* also under reverse=True: equal keys keep their order.
RECURSIVE InsertDesc(_, _)
InsertDesc(x, xs) ==
    IF xs = <<>> THEN <<x>>
    ELSE IF ScoreGeq(Head(xs)["similarity"], x["similarity"])
         THEN <<Head(xs)>> \o InsertDesc(x, Tail(xs))
         ELSE <<x>> \o xs

RECURSIVE SortDesc(_)
SortDesc(xs) ==
    IF xs = <<>> THEN <<>>
    ELSE InsertDesc(xs[Len(xs)], SortDesc(SubSeq(xs, 1, Len(xs) - 1)))

\* Variant of line 47 that sorts ascending and reverses, turning ties around.
RECURSIVE InsertDescBeforeTies(_, _)
InsertDescBeforeTies(x, xs) ==
    IF xs = <<>> THEN <<x>>
    ELSE IF ScoreGeq(x["similarity"], Head(xs)["similarity"])
         THEN <<x>> \o xs
         ELSE <<Head(xs)>> \o InsertDescBeforeTies(x, Tail(xs))

RECURSIVE SortDescReversed(_)
SortDescReversed(xs) ==
    IF xs = <<>> THEN <<>>
    ELSE InsertDescBeforeTies(xs[Len(xs)], SortDescReversed(SubSeq(xs, 1, Len(xs) - 1)))

RankReversed(results, prob, t) ==
    IF \E i \in 1..Len(results) : "text" \notin DOMAIN results[i]
    THEN Raise("'text'")
    ELSE Return(SortDescReversed(Matched(results, prob, t)))

\* Variant of line 43 that reads the field with .get and so skips no record
\* loudly: documents without text are dropped.
RankSkipping(results, prob, t) ==
    Return(SortDesc(Matched(SelectSeq(results, LAMBDA d : "text" \in DOMAIN d), prob, t)))

\* Lines 40-48 on the query's results: data["text"] raises KeyError('text')
\* at the first document without the field.
Rank(results, prob, t) ==
    IF \E i \in 1..Len(results) : "text" \notin DOMAIN results[i]
    THEN Raise("'text'")
    ELSE Return(SortDesc(Matched(results, prob, t)))

search_firebase(docs, loc, prob, t) == Rank(QueryResults(docs, title(strip(loc))), prob, t)

(***************************************************************************)
(* search_online (src/app.py:51-66) on the answer of requests.post.         *)
(***************************************************************************)
\* dict.get(key, default)
Get(d, k, default) == IF k \in DOMAIN d THEN d[k] ELSE default

\* Line 55: the number of results asked for.
NumResults == 5

\* Lines 54-55: the payload posted to the search service.
SearchRequest(loc, prob) == [q |-> prob \o <<" ", "i", "n", " ">> \o loc, num |-> NumResults]

\* Line 62.
NewsItem(r) ==
    [title |-> Get(r, "title", "No Title"),
     link |-> Get(r, "link", "#"),
     snippet |-> Get(r, "snippet", "No snippet available.")]

\* Variant of line 59 that does not look at the status.
search_online_any_status(resp) ==
    LET results == Get(resp.json, "organic", <<>>)
    IN  [i \in 1..Len(results) |-> NewsItem(results[i])]

\* Lines 59-66.
search_online(resp) ==
    IF resp.status_code = 200
    THEN LET results == Get(resp.json, "organic", <<>>)
         IN  [i \in 1..Len(results) |-> NewsItem(results[i])]
    ELSE <<>>

(***************************************************************************)
(* generate_summary (src/app.py:69-94).                                     *)
(***************************************************************************)
\* Lines 71-73: one rendered line per news item.
NewsText(news) ==
    [i \in 1..Len(news) |->
        <<"- **", news[i].title, "**: ", news[i].snippet,
          " ([Source](", news[i].link, "))">>]

\* Lines 75-87: the parts the prompt embeds.
Prompt(loc, prob, matched, news) ==
    [problem |-> prob,
     location |-> loc,
     complaints |-> IF matched # <<>> THEN matched ELSE "None found",
     news_text |-> IF NewsText(news) # <<>> THEN NewsText(news)
                   ELSE "No relevant news found"]

\* Lines 89-94 on the outcome of model.generate_content(prompt).
SummaryOf(outcome) ==
    CASE outcome.kind = "text" -> <<outcome.text>>
      [] outcome.kind = "none" -> <<"No summary available.">>
      [] outcome.kind = "raise" -> <<"Error generating summary: ", outcome.error>>

(***************************************************************************)
(* analyze (src/app.py:97-121).                                             *)
(***************************************************************************)
DefaultThreshold == 70

RequiredMessage == "Both 'location' and 'problem' fields are required!"

JsonStr(s) == [t |-> "str", v |-> s]

JsonNull == [t |-> "null"]

JsonNumber == [t |-> "number"]

Respond(b, status) == [body |-> b, status |-> status]

NoResponse == [body |-> [pending |-> TRUE], status |-> 0]

\* Lines 120-121.
ErrorResponse(e) == Respond([error |-> e], 500)

\* Lines 112-118.
AnalysisResult(loc, prob, matched, news, text) ==
    Respond([location |-> loc, problem |-> prob, matched_complaints |-> matched,
             news_results |-> news, summary |-> text], 200)

\* Lines 101-106.  get_json() gives None for the JSON document null; .get on
\* None and .strip on a value that is no str raise AttributeError.
Validate(b) ==
    IF b.kind # "object"
    THEN Raise("'NoneType' object has no attribute 'get'")
    ELSE LET loc == Get(b.data, "location", JsonStr(<<>>))
             prob == Get(b.data, "problem", JsonStr(<<>>))
         IN  IF loc.t # "str"
             THEN Raise("object has no attribute 'strip'")
             ELSE IF prob.t # "str"
             THEN Raise("object has no attribute 'strip'")
             ELSE Return([location |-> title(strip(loc.v)), problem |-> strip(prob.v)])

Event(fn, ev, val) == [fn |-> fn, ev |-> ev, val |-> val]

(***************************************************************************)
(* Inputs: the documents the store may hold, the request bodies a client    *)
(* may send, and what the three services may answer.                        *)
(***************************************************************************)
RECURSIVE SeqsUpTo(_, _)
SeqsUpTo(S, n) ==
    IF n = 0 THEN {<<>>}
    ELSE LET shorter == SeqsUpTo(S, n - 1)
         IN  shorter \cup {Append(q, x) : q \in {r \in shorter : Len(r) = n - 1}, x \in S}

Docs ==
    { [location |-> <<"A", "b">>, text |-> <<"a", " ", "b">>],
      [location |-> <<"A", "b", " ", "B">>, text |-> <<"B", " ", "a">>],
      [location |-> <<"A", "b">>],
      [location |-> <<"B">>, text |-> <<"a", " ", "b">>] }

Stores == SeqsUpTo(Docs, MaxRecords)

LocationValues ==
    { JsonStr(<<>>), JsonStr(<<" ">>), JsonStr(<<"a", "b">>), JsonStr(<<" ", "b", " ">>),
      JsonNull, JsonNumber }

ProblemValues ==
    { JsonStr(<<>>), JsonStr(<<" ">>), JsonStr(<<"b", " ", "a">>), JsonStr(<<"b">>),
      JsonNull }

Bodies ==
    {[kind |-> "null"]}
    \cup {[kind |-> "object", data |-> <<>>]}
    \cup {[kind |-> "object", data |-> [k \in {"location"} |-> l]] : l \in LocationValues}
    \cup {[kind |-> "object", data |-> [k \in {"problem"} |-> p]] : p \in ProblemValues}
    \cup {[kind |-> "object",
           data |-> [k \in {"location", "problem"} |-> IF k = "location" THEN l ELSE p]] :
                l \in LocationValues, p \in ProblemValues}

StoreErrors == {"503 The service is currently unavailable."}

OrganicItems ==
    { [k \in {"title"} |-> "T"],
      [k \in {"link", "snippet"} |-> IF k = "link" THEN "L" ELSE "S"] }

OrganicLists == SeqsUpTo(OrganicItems, MaxOrganic)

SearchResponses ==
    {[status_code |-> 200, json |-> <<>>]}
    \cup {[status_code |-> 200, json |-> [organic |-> l]] : l \in OrganicLists}
    \cup {[status_code |-> c, json |-> j] :
            c \in {204, 404, 500},
            j \in {<<>>, [organic |-> <<[k \in {"title"} |-> "T"]>>]}}

SearchErrors == {"ConnectionError"}

GenerationOutcomes ==
    { [kind |-> "text", text |-> "generated text"],
      [kind |-> "none"],
      [kind |-> "raise", error |-> "404 model not found"] }

(***************************************************************************)
(* One POST /analyze request.                                               *)
(***************************************************************************)
Init ==
    /\ store \in Stores
    /\ body = [kind |-> "none"]
    /\ pc = "idle"
    /\ location = <<>>
    /\ problem = <<>>
    /\ threshold = DefaultThreshold
    /\ complaints = <<>>
    /\ news_results = <<>>
    /\ summary = <<>>
    /\ prompt = [sent |-> FALSE]
    /\ response = NoResponse
    /\ calls = <<>>

\* Lines 100-106: the request arrives and is validated.
Request(b) ==
    /\ pc = "idle"
    /\ body' = b
    /\ LET v == Validate(b)
       IN  IF ~v.ok
           THEN /\ response' = ErrorResponse(v.error)
                /\ pc' = "done"
                /\ UNCHANGED <<location, problem>>
           ELSE /\ location' = v.value.location
                /\ problem' = v.value.problem
                /\ IF v.value.location = <<>> \/ v.value.problem = <<>>
                   THEN /\ response' = Respond([error |-> RequiredMessage], 400)
                        /\ pc' = "done"
                   ELSE /\ response' = response
                        /\ pc' = "search_firebase"
    /\ UNCHANGED <<store, threshold, complaints, news_results, summary, prompt, calls>>

\* Line 108: search_firebase is called and issues its query.
CallSearchFirebase ==
    /\ pc = "search_firebase"
    /\ threshold' = DefaultThreshold
    /\ calls' = Append(calls, Event("search_firebase", "call", <<location, problem>>))
    /\ pc' = "query_stream"
    /\ UNCHANGED <<store, body, location, problem, complaints, news_results, summary,
                   prompt, response>>

\* Variant of line 38 that swallows the failure and goes on without candidates.
QueryStreamFailsSilently(e) ==
    /\ pc = "query_stream"
    /\ calls' = Append(calls, Event("search_firebase", "raise", e))
    /\ complaints' = <<>>
    /\ pc' = "search_online"
    /\ UNCHANGED <<store, body, location, problem, threshold, news_results, summary,
                   prompt, response>>

\* Line 38 raises: nothing between it and the handler's except catches it.
QueryStreamFails(e) ==
    /\ pc = "query_stream"
    /\ calls' = Append(calls, Event("search_firebase", "raise", e))
    /\ response' = ErrorResponse(e)
    /\ pc' = "done"
    /\ UNCHANGED <<store, body, location, problem, threshold, complaints, news_results,
                   summary, prompt>>

\* Line 38 returns; lines 40-48 rank the results.
QueryStreamReturns ==
    /\ pc = "query_stream"
    /\ LET r == search_firebase(store, location, problem, threshold)
       IN  IF r.ok
           THEN /\ complaints' = r.value
                /\ calls' = Append(calls, Event("search_firebase", "return", r.value))
                /\ pc' = "search_online"
                /\ response' = response
           ELSE /\ complaints' = complaints
                /\ calls' = Append(calls, Event("search_firebase", "raise", r.error))
                /\ response' = ErrorResponse(r.error)
                /\ pc' = "done"
    /\ UNCHANGED <<store, body, location, problem, threshold, news_results, summary, prompt>>

\* Variant of lines 108-109 that posts the search while the query is running.
CallSearchOnlineEarly ==
    /\ pc \in {"query_stream", "search_online"}
    /\ calls' = calls \o <<Event("search_online", "call", <<location, problem>>),
                           Event("requests.post", "call", SearchRequest(location, problem))>>
    /\ pc' = "requests_post"
    /\ UNCHANGED <<store, body, location, problem, threshold, complaints, news_results,
                   summary, prompt, response>>

\* Line 109: search_online is called and posts its query.
CallSearchOnline ==
    /\ pc = "search_online"
    /\ calls' = calls \o <<Event("search_online", "call", <<location, problem>>),
                           Event("requests.post", "call", SearchRequest(location, problem))>>
    /\ pc' = "requests_post"
    /\ UNCHANGED <<store, body, location, problem, threshold, complaints, news_results,
                   summary, prompt, response>>

\* Line 57 raises (no connection, timeout in the transport).
PostFails(e) ==
    /\ pc = "requests_post"
    /\ calls' = Append(calls, Event("search_online", "raise", e))
    /\ response' = ErrorResponse(e)
    /\ pc' = "done"
    /\ UNCHANGED <<store, body, location, problem, threshold, complaints, news_results,
                   summary, prompt>>

\* Line 57 returns a response; lines 59-66.
PostResponds(resp) ==
    /\ pc = "requests_post"
    /\ news_results' = search_online(resp)
    /\ calls' = calls \o <<Event("requests.post", "return", resp),
                           Event("search_online", "return", search_online(resp))>>
    /\ pc' = "generate_summary"
    /\ UNCHANGED <<store, body, location, problem, threshold, complaints, summary, prompt,
                   response>>

\* Line 110 and lines 71-91: generate_summary is called, builds the prompt and
\* sends it.
CallGenerateSummary ==
    /\ pc = "generate_summary"
    /\ calls' = Append(calls, Event("generate_summary", "call",
                                    <<location, problem, complaints, news_results>>))
    /\ prompt' = Prompt(location, problem, complaints, news_results)
    /\ pc' = "generate_content"
    /\ UNCHANGED <<store, body, location, problem, threshold, complaints, news_results,
                   summary, response>>

\* Variant of lines 89-94 without the try: the failure reaches line 120.
GenerateContentUncaught(outcome) ==
    /\ pc = "generate_content"
    /\ IF outcome.kind = "raise"
       THEN /\ summary' = summary
            /\ calls' = Append(calls, Event("generate_content", outcome.kind, outcome))
            /\ response' = ErrorResponse(outcome.error)
       ELSE /\ summary' = SummaryOf(outcome)
            /\ calls' = calls \o <<Event("generate_content", outcome.kind, outcome),
                                   Event("generate_summary", "return", SummaryOf(outcome))>>
            /\ response' = AnalysisResult(location, problem, complaints, news_results,
                                          SummaryOf(outcome))
    /\ pc' = "done"
    /\ UNCHANGED <<store, body, location, problem, threshold, complaints, news_results,
                   prompt>>

\* Lines 91-94, then lines 112-118.
GenerateContent(outcome) ==
    /\ pc = "generate_content"
    /\ summary' = SummaryOf(outcome)
    /\ calls' = calls \o <<Event("generate_content", outcome.kind, outcome),
                           Event("generate_summary", "return", SummaryOf(outcome))>>
    /\ response' = AnalysisResult(location, problem, complaints, news_results,
                                  SummaryOf(outcome))
    /\ pc' = "done"
    /\ UNCHANGED <<store, body, location, problem, threshold, complaints, news_results,
                   prompt>>

Next ==
    \/ \E b \in Bodies : Request(b)
    \/ CallSearchFirebase
    \/ \E e \in StoreErrors : QueryStreamFails(e)
    \/ QueryStreamReturns
    \/ CallSearchOnline
    \/ \E e \in SearchErrors : PostFails(e)
    \/ \E resp \in SearchResponses : PostResponds(resp)
    \/ CallGenerateSummary
    \/ \E outcome \in GenerationOutcomes : GenerateContent(outcome)

Spec == Init /\ [][Next]_vars

(***************************************************************************)
(* Properties of one request (specification Spec).                          *)
(***************************************************************************)
HasEvent(fn, ev) == \E i \in 1..Len(calls) : calls[i].fn = fn /\ calls[i].ev = ev

\* The calls, returns and failures of the three collaborators, in order.
Collaborators == {"search_firebase", "search_online", "generate_summary"}

CollaboratorEvents == SelectSeq(calls, LAMBDA e : e.fn \in Collaborators)

\* A field of the body is missing, or is a string that is empty once trimmed.
MissingOrEmpty(b, k) ==
    \/ k \notin DOMAIN b.data
    \/ b.data[k].t = "str" /\ strip(b.data[k].v) = <<>>

\* C1: a JSON object body whose location or problem is missing, or empty after
\* trimming, is answered with status 400 and the required-fields message.
C1_MissingFieldGives400 ==
    (/\ pc = "done"
     /\ body.kind = "object"
     /\ (MissingOrEmpty(body, "location") \/ MissingOrEmpty(body, "problem")))
    => response = Respond([error |-> RequiredMessage], 400)

\* C2: the collaborators are called in the order search_firebase,
\* search_online, generate_summary, each only after the previous one has
\* returned; generate_summary is handed what the two earlier calls returned;
\* a request answered with 200 has made all three calls.
Predecessor(fn) ==
    CASE fn = "search_online" -> "search_firebase"
      [] fn = "generate_summary" -> "search_online"
      [] OTHER -> "none"

C2_CallsInOrder ==
    LET ce == CollaboratorEvents
    IN  /\ \A i \in 1..Len(ce) :
              ce[i].ev = "call" =>
                  IF i = 1 THEN ce[i].fn = "search_firebase"
                  ELSE /\ ce[i - 1].ev = "return"
                       /\ ce[i - 1].fn = Predecessor(ce[i].fn)
        /\ \A i \in 1..Len(ce) :
              ce[i].ev # "call" => i > 1 /\ ce[i - 1].ev = "call" /\ ce[i - 1].fn = ce[i].fn
        /\ \A i \in 1..Len(ce) :
              (ce[i].fn = "generate_summary" /\ ce[i].ev = "call") =>
                  /\ i = 5
                  /\ ce[i].val = <<location, problem, ce[2].val, ce[4].val>>
        /\ (pc = "done" /\ response.status = 200) => Len(ce) = 6

C2_Witness ==
    /\ pc = "done"
    /\ response.status = 200
    /\ Len(response.body.matched_complaints) > 0
    /\ Len(response.body.news_results) > 1

\* C3: when search_firebase and search_online returned and the generative
\* model call fails, the request is answered with 200 and the full result,
\* whose summary is the error text embedding the failure reason.
C3_GenerationFailureGives200 ==
    \A i \in 1..Len(calls) :
        (/\ pc = "done"
         /\ calls[i].fn = "generate_content"
         /\ calls[i].ev = "raise") =>
            /\ response.status = 200
            /\ response.body.summary = <<"Error generating summary: ", calls[i].val.error>>
            /\ response.body.location = location
            /\ response.body.problem = problem
            /\ \E j \in 1..Len(calls) :
                  /\ calls[j].fn = "search_firebase"
                  /\ calls[j].ev = "return"
                  /\ response.body.matched_complaints = calls[j].val
            /\ \E j \in 1..Len(calls) :
                  /\ calls[j].fn = "search_online"
                  /\ calls[j].ev = "return"
                  /\ response.body.news_results = calls[j].val

C3_Witness ==
    /\ pc = "done"
    /\ HasEvent("generate_content", "raise")
    /\ response.status = 200
    /\ Len(response.body.matched_complaints) > 0

\* C4 as claimed: whenever any failure was raised while a valid request ran,
\* the request is answered with 500 and the failure's string form.
C4_AnyFailureGives500 ==
    \A i \in 1..Len(calls) :
        (pc = "done" /\ calls[i].ev = "raise") =>
            response = ErrorResponse(IF calls[i].fn = "generate_content"
                                     THEN calls[i].val.error ELSE calls[i].val)

\* C4 as amended: a failure raised by search_firebase or search_online ends
\* the request with 500 and the failure's string form, and a 200 response
\* carries what both lookups returned; a failure of the generative model is
\* the one failure that does not do so.
C4_LookupFailureGives500 ==
    /\ \A i \in 1..Len(calls) :
          (calls[i].ev = "raise" /\ calls[i].fn \in {"search_firebase", "search_online"}) =>
              /\ pc = "done"
              /\ response = ErrorResponse(calls[i].val)
    /\ (pc = "done" /\ response.status = 200) =>
          /\ \E j \in 1..Len(calls) :
                /\ calls[j].fn = "search_firebase"
                /\ calls[j].ev = "return"
                /\ response.body.matched_complaints = calls[j].val
          /\ \E j \in 1..Len(calls) :
                /\ calls[j].fn = "search_online"
                /\ calls[j].ev = "return"
                /\ response.body.news_results = calls[j].val

C4_Witness ==
    /\ pc = "done"
    /\ \E i \in 1..Len(calls) :
          /\ calls[i].fn = "search_firebase"
          /\ calls[i].ev = "raise"
          /\ calls[i].val \in StoreErrors
    /\ response.status = 500

\* C6: every matched complaint has exactly the normalized location of the
\* request as its location.
C6_ExactLocationMatch ==
    \A i \in 1..Len(complaints) : complaints[i]["location"] = location

\* C7: search_online returns at most 5 items, each the projection of the
\* upstream item at the same position with the placeholders for absent fields.
C7_AtMostFiveNews ==
    \A i \in 1..Len(calls) :
        (calls[i].fn = "requests.post" /\ calls[i].ev = "return"
                                       /\ calls[i].val.status_code = 200) =>
            LET upstream == Get(calls[i].val.json, "organic", <<>>)
            IN  /\ Len(news_results) <= 5
                /\ Len(news_results) <= Len(upstream)
                /\ \A k \in 1..Len(news_results) :
                      /\ DOMAIN news_results[k] = {"title", "link", "snippet"}
                      /\ news_results[k].title =
                            IF "title" \in DOMAIN upstream[k]
                            THEN upstream[k]["title"] ELSE "No Title"
                      /\ news_results[k].link =
                            IF "link" \in DOMAIN upstream[k]
                            THEN upstream[k]["link"] ELSE "#"
                      /\ news_results[k].snippet =
                            IF "snippet" \in DOMAIN upstream[k]
                            THEN upstream[k]["snippet"] ELSE "No snippet available."

\* C8: when the search service answers with a status outside 200..299,
\* search_online returns the empty list and raises nothing, and the request
\* goes on to generate_summary and ends with 200.
C8_NonSuccessGivesNoNews ==
    \A i \in 1..Len(calls) :
        (/\ calls[i].fn = "requests.post"
         /\ calls[i].ev = "return"
         /\ calls[i].val.status_code \notin 200..299) =>
            /\ calls[i + 1].fn = "search_online"
            /\ calls[i + 1].ev = "return"
            /\ calls[i + 1].val = <<>>
            /\ news_results = <<>>
            /\ ~HasEvent("search_online", "raise")
            /\ pc \in {"generate_summary", "generate_content", "done"}
            /\ pc = "done" =>
                  /\ HasEvent("generate_summary", "call")
                  /\ response.status = 200
                  /\ response.body.news_results = <<>>

C8_Witness ==
    /\ pc = "done"
    /\ response.status = 200
    /\ \E i \in 1..Len(calls) :
          /\ calls[i].fn = "requests.post"
          /\ calls[i].ev = "return"
          /\ calls[i].val.status_code = 404
          /\ "organic" \in DOMAIN calls[i].val.json

\* C9: when the query returned and one of its candidates has no text field,
\* search_firebase returns no list and the request ends with 500 and the
\* KeyError's string form.
CandidateLacksText ==
    LET candidates == QueryResults(store, location)
    IN  \E i \in 1..Len(candidates) : "text" \notin DOMAIN candidates[i]

StoreFailed ==
    \E i \in 1..Len(calls) :
        calls[i].fn = "search_firebase" /\ calls[i].ev = "raise" /\ calls[i].val \in StoreErrors

C9_MissingTextFailsRequest ==
    (/\ HasEvent("search_firebase", "call")
     /\ pc # "query_stream"
     /\ ~StoreFailed
     /\ CandidateLacksText) =>
        /\ pc = "done"
        /\ response = ErrorResponse("'text'")
        /\ ~HasEvent("search_firebase", "return")
        /\ complaints = <<>>

C9_Witness ==
    /\ pc = "done"
    /\ response = ErrorResponse("'text'")
    /\ CandidateLacksText
    /\ \E i \in 1..Len(store) :
          /\ "text" \in DOMAIN store[i]
          /\ InLocationRange(store[i], location)
          /\ ScoreAtLeast(similarity_score(problem, store[i]), DefaultThreshold)

(***************************************************************************)
(* search_firebase as a function of the threshold, the problem and the      *)
(* documents (specification SpecRank).                                      *)
(***************************************************************************)
RankLocation == <<"A", "b">>

RankDocs ==
    { [location |-> RankLocation, text |-> <<"a", " ", "b">>],
      [location |-> RankLocation, text |-> <<"B", " ", "a">>],
      [location |-> RankLocation, text |-> <<"a">>],
      [location |-> RankLocation, text |-> <<"b", " ", "b">>],
      [location |-> RankLocation] }

RankProblems == {<<"a", " ", "b">>, <<"b">>, <<"a">>}

Thresholds == {0, 50, 70, 100}

InitRank ==
    /\ store \in SeqsUpTo(RankDocs, MaxResults)
    /\ body = [kind |-> "none"]
    /\ pc = "search_firebase"
    /\ location = RankLocation
    /\ problem \in RankProblems
    /\ threshold \in Thresholds
    /\ complaints = <<>>
    /\ news_results = <<>>
    /\ summary = <<>>
    /\ prompt = [sent |-> FALSE]
    /\ response = NoResponse
    /\ calls = <<>>

\* search_firebase(location, problem, threshold), lines 32-48.
SearchFirebase ==
    /\ pc = "search_firebase"
    /\ LET r == search_firebase(store, location, problem, threshold)
       IN  IF r.ok
           THEN /\ complaints' = r.value
                /\ calls' = Append(calls, Event("search_firebase", "return", r.value))
           ELSE /\ complaints' = complaints
                /\ calls' = Append(calls, Event("search_firebase", "raise", r.error))
    /\ pc' = "done"
    /\ UNCHANGED <<store, body, location, problem, threshold, news_results, summary,
                   prompt, response>>

NextRank == SearchFirebase

SpecRank == InitRank /\ [][NextRank]_vars

ScoreGreater(a, b) == a.num * b.den > b.num * a.den

\* C5: the list search_firebase returns holds exactly the candidates whose
\* score is at least the threshold, each with its score as similarity, by
\* descending score, candidates of equal score in the store's order.
C5_RankedExactlyAboveThreshold ==
    HasEvent("search_firebase", "return") =>
        LET candidates == QueryResults(store, location)
            score(i) == similarity_score(problem, candidates[i])
            kept == {i \in 1..Len(candidates) : score(i).num >= threshold * score(i).den}
            \* Place of candidate i in the output: after the kept candidates of
            \* higher score and those of equal score before it in the store.
            place(i) ==
                1 + Cardinality({j \in kept :
                        \/ ScoreGreater(score(j), score(i))
                        \/ score(j) = score(i) /\ j < i})
        IN  /\ Len(complaints) = Cardinality(kept)
            /\ \A i \in kept :
                  /\ DOMAIN complaints[place(i)] = DOMAIN candidates[i] \cup {"similarity"}
                  /\ complaints[place(i)]["location"] = candidates[i]["location"]
                  /\ complaints[place(i)]["text"] = candidates[i]["text"]
                  /\ complaints[place(i)]["similarity"] = score(i)

\* Two kept candidates of equal score and different text, a higher score
\* behind them in the store, and a candidate below the threshold.
C5_Witness ==
    /\ pc = "done"
    /\ Len(store) = 4
    /\ Len(complaints) = 3
    /\ threshold > 0
    /\ complaints[2]["similarity"] = complaints[3]["similarity"]
    /\ complaints[2]["text"] # complaints[3]["text"]
    /\ complaints[1]["text"] = store[4]["text"]
    /\ ScoreGreater(complaints[1]["similarity"], complaints[2]["similarity"])

(***************************************************************************)
(* The score of line 43 under reordering of words (specification SpecScore).*)
(***************************************************************************)
MaxReorderings == 2

Words == {<<"b">>, <<"a", "B">>}

WordLists == SeqsUpTo(Words, MaxWords) \ {<<>>}

Phrases == {join(ws) : ws \in WordLists}

Orderings(n) == {f \in [1..n -> 1..n] : \A i, j \in 1..n : f[i] = f[j] => i = j}

\* The strings made of the words of s in another order.
Reorderings(s) ==
    LET ws == split(s)
    IN  {join([i \in 1..Len(ws) |-> ws[f[i]]]) : f \in Orderings(Len(ws))}

InitScore ==
    /\ store \in {<<[location |-> RankLocation, text |-> t]>> : t \in Phrases}
    /\ body = [kind |-> "none"]
    /\ pc = "score"
    /\ location = RankLocation
    /\ problem \in Phrases
    /\ threshold = 0
    /\ complaints = <<>>
    /\ news_results = <<>>
    /\ summary = <<>>
    /\ prompt = [sent |-> FALSE]
    /\ response = NoResponse
    /\ calls = <<>>

\* Line 43 on the document of the store.
ScoreNow ==
    /\ calls' = Append(calls, Event("token_sort_ratio", "return",
                                    similarity_score(problem', store'[1])))
    /\ complaints' = search_firebase(store', location, problem', threshold).value
    /\ UNCHANGED <<body, location, threshold, news_results, summary, prompt, response>>

Score ==
    /\ pc = "score"
    /\ pc' = "scored"
    /\ UNCHANGED <<store, problem>>
    /\ ScoreNow

\* The same document scored against the problem with its words reordered.
ReorderProblem ==
    /\ pc = "scored"
    /\ Len(calls) <= MaxReorderings
    /\ \E p \in Reorderings(problem) : p # problem /\ problem' = p
    /\ UNCHANGED <<store, pc>>
    /\ ScoreNow

\* The same problem scored against the document with the words of its text
\* reordered.
ReorderText ==
    /\ pc = "scored"
    /\ Len(calls) <= MaxReorderings
    /\ \E t \in Reorderings(store[1]["text"]) :
          /\ t # store[1]["text"]
          /\ store' = <<[location |-> RankLocation, text |-> t]>>
    /\ UNCHANGED <<problem, pc>>
    /\ ScoreNow

NextScore == Score \/ ReorderProblem \/ ReorderText

SpecScore == InitScore /\ [][NextScore]_vars

\* C10: the score of a problem against a text does not change when the words
\* of the problem, or the words of the text, are put in another order.
C10_ScoreIgnoresWordOrder ==
    \A i, j \in 1..Len(calls) : calls[i].val = calls[j].val

\* Words of both strings were reordered away from their sorted order, and
\* the strings are neither equal as word lists nor without resemblance.
C10_Witness ==
    /\ Len(calls) = 3
    /\ split(lower(problem)) # sorted(split(lower(problem)))
    /\ split(lower(store[1]["text"])) # sorted(split(lower(store[1]["text"])))
    /\ calls[3].val.num \notin {0, 100}
    /\ complaints[1]["similarity"] = calls[3].val

====
